---- MODULE Spec2Model ----
(***************************************************************************)
(* A model of the AI running coach: the pattern analyzer                   *)
(* (data_analyzer.py), the coach adapter with its fallback contract        *)
(* (ai_coach.py) and the command line flow with its cache (main.py).       *)
(*                                                                         *)
(* Python strings that the code formats, slices, searches or parses are    *)
(* sequences of one-character strings.  Dates are day ordinals: day d is   *)
(* weekday WEEKDAYS[(d % 7) + 1].  Dictionaries are records; a dictionary  *)
(* whose insertion order the code depends on is a sequence of pairs.       *)
(***************************************************************************)
EXTENDS Integers, Sequences, FiniteSets, TLC

(***************************************************************************)
(* Bounds of the model.                                                    *)
(***************************************************************************)
MaxActs == 2
MaxDate == 9
MaxAvgDuration == 100
MaxDaysAgo == 5

\* days for which the clock of the CLI runs
MaxDays == 1

(***************************************************************************)
(* String literals of the source.                                          *)
(***************************************************************************)
TomorrowPrefix ==
    <<"t","o","m","o","r","r","o","w"," ">>
SevenAM ==
    <<"7",":","0","0"," ","A","M">>
SixPM ==
    <<"6",":","0","0"," ","P","M">>
DEFAULT_INSIGHT ==
    <<"S","t","a","r","t"," ","w","i","t","h"," ","a"," ","c","o","m","f","o","r","t","a",
      "b","l","e"," ","3","0","-","m","i","n","u","t","e"," ","r","u","n">>
DEFAULT_MOTIVATION ==
    <<"E","v","e","r","y"," ","j","o","u","r","n","e","y"," ","b","e","g","i","n","s"," ",
      "w","i","t","h"," ","a"," ","s","i","n","g","l","e"," ","s","t","e","p","!">>
TEXT_MOTIVATION ==
    <<"K","e","e","p"," ","p","u","s","h","i","n","g"," ","f","o","r","w","a","r","d","!">>
FREE_AI_MODEL ==
    <<"m","e","t","a","-","l","l","a","m","a","/","l","l","a","m","a","-","3",".","1","-",
      "8","b","-","i","n","s","t","r","u","c","t",":","f","r","e","e">>
RULE_BASED ==
    <<"r","u","l","e","-","b","a","s","e","d">>
DEFAULT_MODEL ==
    <<"d","e","f","a","u","l","t">>
EARLY_MORNING ==
    <<"e","a","r","l","y","_","m","o","r","n","i","n","g">>
MORNING ==
    <<"m","o","r","n","i","n","g">>
AFTERNOON ==
    <<"a","f","t","e","r","n","o","o","n">>
EVENING ==
    <<"e","v","e","n","i","n","g">>
NIGHT ==
    <<"n","i","g","h","t">>
InsightHead ==
    <<"Y","o","u"," ","t","y","p","i","c","a","l","l","y"," ","r","u","n"," ">>
InsightMid ==
    <<" ","t","i","m","e","s"," ","p","e","r"," ","w","e","e","k",","," ">>
InsightMostly ==
    <<"m","o","s","t","l","y"," ","i","n"," ","t","h","e"," ">>
InsightAround ==
    <<" ","a","r","o","u","n","d"," ">>
FavoriteTail ==
    <<" ","i","s"," ","o","n","e"," ","o","f"," ","y","o","u","r"," ","f","a","v","o","r",
      "i","t","e"," ","r","u","n","n","i","n","g"," ","d","a","y","s"," ","-"," ","s","t",
      "a","y"," ","c","o","n","s","i","s","t","e","n","t","!">>
MixItUpHead ==
    <<"M","i","x"," ","i","t"," ","u","p"," ","t","o","d","a","y","!"," ","Y","o","u","r",
      " ","u","s","u","a","l"," ","d","a","y","s"," ","a","r","e"," ">>
CommaSpace ==
    <<","," ">>
Monday ==
    <<"M","o","n","d","a","y">>
Tuesday ==
    <<"T","u","e","s","d","a","y">>
Wednesday ==
    <<"W","e","d","n","e","s","d","a","y">>
Thursday ==
    <<"T","h","u","r","s","d","a","y">>
Friday ==
    <<"F","r","i","d","a","y">>
Saturday ==
    <<"S","a","t","u","r","d","a","y">>
Sunday ==
    <<"S","u","n","d","a","y">>
WEEKDAYS ==
    <<Monday, Tuesday, Wednesday, Thursday, Friday, Saturday, Sunday>>

(***************************************************************************)
(* Python string operations.                                               *)
(***************************************************************************)
DIGITS ==
    <<"0","1","2","3","4","5","6","7","8","9">>
UPPER ==
    <<"A","B","C","D","E","F","G","H","I","J","K","L","M",
      "N","O","P","Q","R","S","T","U","V","W","X","Y","Z">>
LOWER ==
    <<"a","b","c","d","e","f","g","h","i","j","k","l","m",
      "n","o","p","q","r","s","t","u","v","w","x","y","z">>
WHITESPACE ==
    {" ", "\n", "\t"}

\* s[:n]
Take(s, n) ==
    SubSeq(s, 1, IF Len(s) < n THEN Len(s) ELSE n)

\* str.lower() of one character
LowerChar(c) ==
    IF \E i \in 1..26 : UPPER[i] = c
    THEN LOWER[CHOOSE i \in 1..26 : UPPER[i] = c]
    ELSE c

\* str.lower()
Lower(s) ==
    [i \in 1..Len(s) |-> LowerChar(s[i])]

\* str.strip()
Strip(s) ==
    LET keep == {i \in 1..Len(s) : s[i] \notin WHITESPACE}
    IN  IF keep = {} THEN <<>>
        ELSE SubSeq(s, CHOOSE i \in keep : \A j \in keep : i <= j,
                       CHOOSE i \in keep : \A j \in keep : j <= i)

\* sub in s
Contains(sub, s) ==
    \E i \in 0..(Len(s) - Len(sub)) : SubSeq(s, i + 1, i + Len(sub)) = sub

\* s.startswith(p)
StartsWith(s, p) ==
    Len(p) <= Len(s) /\ SubSeq(s, 1, Len(p)) = p

\* s.split(sep)[0] for a one-character separator
SplitHead(s, sep) ==
    LET at == {i \in 1..Len(s) : s[i] = sep}
    IN  IF at = {} THEN s
        ELSE SubSeq(s, 1, (CHOOSE i \in at : \A j \in at : i <= j) - 1)

DigitValue(c) ==
    (CHOOSE i \in 1..10 : DIGITS[i] = c) - 1

RECURSIVE ParseInt(_)
\* int(s) for a string of decimal digits
ParseInt(s) ==
    IF s = <<>> THEN 0
    ELSE 10 * ParseInt(SubSeq(s, 1, Len(s) - 1)) + DigitValue(s[Len(s)])

RECURSIVE FormatInt(_)
\* f"{n}" for n >= 0
FormatInt(n) ==
    IF n < 10 THEN <<DIGITS[n + 1]>>
    ELSE FormatInt(n \div 10) \o <<DIGITS[(n % 10) + 1]>>

\* f"{n:02d}"
Format02d(n) ==
    IF n < 10 THEN <<"0">> \o FormatInt(n) ELSE FormatInt(n)

\* f"{hour:02d}:00", the HH:MM form of context.time_now and most_common_time
FormatHHMM(hour, minute) ==
    Format02d(hour) \o <<":">> \o Format02d(minute)

RECURSIVE Join(_, _)
\* sep.join(parts)
Join(sep, parts) ==
    IF parts = <<>> THEN <<>>
    ELSE IF Len(parts) = 1 THEN parts[1]
    ELSE parts[1] \o sep \o Join(sep, Tail(parts))

(***************************************************************************)
(* Python arithmetic.                                                      *)
(***************************************************************************)
\* round(num / den) for an exactly represented quotient: ties go to even
RoundHalfEven(num, den) ==
    LET q == num \div den
        r == num % den
    IN  IF 2 * r > den THEN q + 1
        ELSE IF 2 * r < den THEN q
        ELSE IF q % 2 = 0 THEN q ELSE q + 1

RECURSIVE FloorPow2(_)
\* the largest power of two that is <= n, n >= 1
FloorPow2(n) ==
    IF n < 2 THEN 1 ELSE 2 * FloorPow2(n \div 2)

\* int(a * 0.8) in IEEE double arithmetic.  The double nearest to 0.8 lies
\* above 0.8, so the rounded product never falls below an exact integer.
TruncTimes08(a) ==
    (8 * a) \div 10

\* int(a * 0.7) in IEEE double arithmetic.  The double nearest to 0.7 is
\* 0.7 - 0.4 * 2^-53.  When 7a/10 is an integer N = 7j (a = 10j), the exact
\* product is N - 4j * 2^-53; with 2^k <= N < 2^(k+1) the doubles below N
\* are 2^(k-52) apart, so the product rounds to N only if 4j <= 2^k, and
\* otherwise to the double below N, which truncates to N - 1.
TruncTimes07(a) ==
    IF a > 0 /\ a % 10 = 0 /\ 4 * (a \div 10) > FloorPow2(7 * (a \div 10))
    THEN (7 * a) \div 10 - 1
    ELSE (7 * a) \div 10

(***************************************************************************)
(* Ordered dictionaries: Counter and defaultdict keep the order in which   *)
(* keys were first inserted, and max() and sorted() are stable.            *)
(***************************************************************************)
RECURSIVE CountInto(_, _)
CountInto(acc, xs) ==
    IF xs = <<>> THEN acc
    ELSE LET k == Head(xs)
             hit == {i \in 1..Len(acc) : acc[i].key = k}
         IN  CountInto(IF hit = {}
                       THEN Append(acc, [key |-> k, n |-> 1])
                       ELSE [acc EXCEPT ![CHOOSE i \in hit : TRUE].n = @ + 1],
                       Tail(xs))

\* Counter(xs).items(), in insertion order
Counter(xs) ==
    CountInto(<<>>, xs)

\* index of max(items, key=count): the first item with the largest count
FirstMaxIndex(items) ==
    CHOOSE i \in 1..Len(items) :
        /\ \A j \in 1..Len(items) : items[j].n <= items[i].n
        /\ \A j \in 1..(i - 1) : items[j].n < items[i].n

RECURSIVE SortedByCountDesc(_)
\* sorted(items, key=lambda x: x[1], reverse=True), a stable sort
SortedByCountDesc(items) ==
    IF items = <<>> THEN <<>>
    ELSE LET i == FirstMaxIndex(items)
         IN  <<items[i]>> \o
             SortedByCountDesc(SubSeq(items, 1, i - 1) \o
                               SubSeq(items, i + 1, Len(items)))

RECURSIVE Sum(_)
Sum(xs) ==
    IF xs = <<>> THEN 0 ELSE Head(xs) + Sum(Tail(xs))

MaxOf(S) ==
    CHOOSE x \in S : \A y \in S : y <= x

MinOf(S) ==
    CHOOSE x \in S : \A y \in S : x <= y

(***************************************************************************)
(* data_analyzer.py: SimpleAnalyzer                                        *)
(***************************************************************************)
\* the band of a start hour
TimeBand(hour) ==
    IF hour < 6 THEN EARLY_MORNING
    ELSE IF hour < 12 THEN MORNING
    ELSE IF hour < 17 THEN AFTERNOON
    ELSE IF hour < 21 THEN EVENING
    ELSE NIGHT

analyze_time_patterns(acts) ==
    IF acts = <<>>
    THEN [most_common_time |-> FormatHHMM(18, 0), time_distribution |-> <<>>]
    ELSE LET hours == [i \in 1..Len(acts) |-> acts[i].start_hour]
             hour_counts == Counter(hours)
             most_common_hour == hour_counts[FirstMaxIndex(hour_counts)].key
         IN  [most_common_time |-> FormatHHMM(most_common_hour, 0),
              time_distribution |->
                  Counter([i \in 1..Len(hours) |-> TimeBand(hours[i])])]

calculate_avg_duration(acts) ==
    IF acts = <<>> THEN 30
    ELSE RoundHalfEven(Sum([i \in 1..Len(acts) |-> acts[i].duration_minutes]),
                       Len(acts))

\* round(count / (date_range / 7)) as the double arithmetic of the code
\* gives it: the exact quotient 7 * count / date_range rounded half to even,
\* except that 9 / (18 / 7) comes out just below 3.5 and rounds to 3.  No
\* other count up to MAX_ACTIVITIES_TO_ANALYZE differs from the exact value.
RoundRunsPerWeek(count, date_range) ==
    IF count = 9 /\ date_range = 18 THEN 3
    ELSE RoundHalfEven(7 * count, date_range)

detect_weekly_pattern(acts) ==
    IF acts = <<>>
    THEN [favorite_days |-> <<Tuesday, Thursday>>, runs_per_week |-> 3]
    ELSE LET day_counts == Counter([i \in 1..Len(acts) |-> acts[i].weekday])
             sorted_days == SortedByCountDesc(day_counts)
             top == Take(sorted_days, 3)
             dates == {acts[i].date : i \in 1..Len(acts)}
             date_range == (MaxOf(dates) - MinOf(dates)) + 1
         IN  [favorite_days |-> [i \in 1..Len(top) |-> top[i].key],
              runs_per_week |-> IF date_range > 0
                                THEN RoundRunsPerWeek(Len(acts), date_range)
                                ELSE Len(acts),
              day_counts |-> day_counts]

\* confidence, in tenths
CONFIDENCE_FAVORITE_DAY == 8
CONFIDENCE_OTHER_DAY == 6

\* x in list
InList(x, list) ==
    \E i \in 1..Len(list) : list[i] = x

generate_rule_based_recommendation(patterns, ctx) ==
    LET time_patterns == patterns.time_patterns
        weekly_pattern == patterns.weekly_pattern
        current_day == ctx.today
        current_hour == ParseInt(SplitHead(ctx.time_now, ":"))
        favorite == InList(current_day, weekly_pattern.favorite_days)
        most_common_time == time_patterns.most_common_time
        rec_hour == ParseInt(SplitHead(most_common_time, ":"))
        recommended_time == IF rec_hour < current_hour
                            THEN TomorrowPrefix \o most_common_time
                            ELSE most_common_time
        time_dist == time_patterns.time_distribution
        max_period == IF time_dist # <<>>
                      THEN time_dist[FirstMaxIndex(time_dist)].key
                      ELSE EVENING
        insight == InsightHead \o FormatInt(weekly_pattern.runs_per_week) \o
                   InsightMid \o InsightMostly \o max_period \o
                   InsightAround \o most_common_time
        motivation == IF favorite
                      THEN current_day \o FavoriteTail
                      ELSE MixItUpHead \o
                           Join(CommaSpace, Take(weekly_pattern.favorite_days, 2))
        days_ago == ctx.last_run_days_ago
    IN  [time |-> recommended_time,
         duration |-> IF days_ago > 3 THEN TruncTimes08(patterns.avg_duration)
                      ELSE IF days_ago = 0 THEN TruncTimes07(patterns.avg_duration)
                      ELSE patterns.avg_duration,
         intensity |-> IF days_ago > 3 \/ days_ago = 0 THEN "easy" ELSE "moderate",
         insight |-> insight,
         motivation |-> motivation,
         confidence |-> IF favorite THEN CONFIDENCE_FAVORITE_DAY
                        ELSE CONFIDENCE_OTHER_DAY]

\* Numbers the code rounds to one decimal are held in tenths, distances of
\* activities (two decimals) in hundredths of a kilometre.  The roundings
\* below are those of the double arithmetic for durations that are
\* multiples of 5 minutes and distances that are multiples of 0.5 km.
calculate_performance_metrics(acts) ==
    IF acts = <<>> THEN <<>>
    ELSE LET total_distance == Sum([i \in 1..Len(acts) |-> acts[i].distance_km])
             total_time == Sum([i \in 1..Len(acts) |-> acts[i].duration_minutes])
             distances == {acts[i].distance_km : i \in 1..Len(acts)}
         IN  [total_distance_km |-> RoundHalfEven(total_distance, 10),
              total_time_hours |-> RoundHalfEven(total_time, 6),
              average_pace_min_per_km |->
                  IF total_distance > 0
                  THEN RoundHalfEven(1000 * total_time, total_distance)
                  ELSE 0,
              average_distance_km |-> RoundHalfEven(total_distance, 10 * Len(acts)),
              average_duration_min |-> RoundHalfEven(total_time, Len(acts)),
              longest_run_km |-> RoundHalfEven(MaxOf(distances), 10),
              total_runs |-> Len(acts)]

\* f"{x}" for a float x >= 0 with one decimal, given in tenths
FormatTenths(n) ==
    FormatInt(n \div 10) \o <<".">> \o FormatInt(n % 10)

\* int((pace - mins) * 60) for pace = mins + tenth / 10 as a double: 6 * tenth,
\* or one less where the double nearest to the pace lies below it, which
\* depends on the binade of mins
PaceSeconds(mins, tenth) ==
    LET binade == IF mins = 0 THEN 0 ELSE FloorPow2(mins) % 64
        below == IF binade = 0 THEN {}
                 ELSE IF binade = 1 THEN {2, 4, 9}
                 ELSE IF binade \in {2, 32} THEN {3, 4, 8, 9}
                 ELSE IF binade = 4 THEN {1, 3, 6, 8}
                 ELSE IF binade = 8 THEN {1, 2, 6, 7}
                 ELSE {2, 4, 7, 9}
    IN  IF tenth \in below THEN 6 * tenth - 1 ELSE 6 * tenth

InsightCompleted ==
    <<"Y","o","u","'","v","e"," ","c","o","m","p","l","e","t","e","d"," ">>
InsightRunsTotaling ==
    <<" ","r","u","n","s"," ","t","o","t","a","l","i","n","g"," ">>
InsightKmIn ==
    <<"k","m"," ","i","n"," ">>
InsightHours ==
    <<" ","h","o","u","r","s">>
InsightConsistent ==
    <<"Y","o","u","r"," ","m","o","s","t"," ","c","o","n","s","i","s","t","e","n","t"," ","r","u","n","n","i","n","g"," ","d","a","y","s"," ","a","r","e"," ">>
AndSeparator ==
    <<" ","a","n","d"," ">>
InsightPace ==
    <<"Y","o","u","r"," ","a","v","e","r","a","g","e"," ","p","a","c","e"," ","i","s"," ">>
InsightPerKilometer ==
    <<" ","p","e","r"," ","k","i","l","o","m","e","t","e","r">>
NoActivityData ==
    <<"N","o"," ","a","c","t","i","v","i","t","y"," ","d","a","t","a"," ","a","v","a","i","l","a","b","l","e">>

\* dict.get(key, default)
GetOr(rec, key, default) ==
    IF key \in DOMAIN rec THEN rec[key] ELSE default

generate_weekly_insights(acts) ==
    LET metrics == calculate_performance_metrics(acts)
        patterns == detect_weekly_pattern(acts)
        volume == IF GetOr(metrics, "total_runs", 0) > 0
                  THEN <<InsightCompleted \o FormatInt(metrics.total_runs) \o
                         InsightRunsTotaling \o
                         FormatTenths(metrics.total_distance_km) \o InsightKmIn \o
                         FormatTenths(metrics.total_time_hours) \o InsightHours>>
                  ELSE <<>>
        days == IF patterns.favorite_days # <<>>
                THEN <<InsightConsistent \o
                       Join(AndSeparator, Take(patterns.favorite_days, 2))>>
                ELSE <<>>
        pace == GetOr(metrics, "average_pace_min_per_km", 0)
        speed == IF pace > 0
                 THEN <<InsightPace \o FormatInt(pace \div 10) \o <<":">> \o
                        Format02d(PaceSeconds(pace \div 10, pace % 10)) \o
                        InsightPerKilometer>>
                 ELSE <<>>
    IN  [insights |-> Take(volume \o days \o speed, 3),
         ai_used |-> FALSE,
         model |-> RULE_BASED]

(***************************************************************************)
(* ai_coach.py: FreeAICoach, the functions that build a recommendation     *)
(***************************************************************************)
\* recommendation[key] = value
SetItem(rec, key, value) ==
    (key :> value) @@ rec

_fallback_to_rules(acts, ctx) ==
    LET recommendation ==
            generate_rule_based_recommendation(
                [time_patterns |-> analyze_time_patterns(acts),
                 avg_duration |-> calculate_avg_duration(acts),
                 weekly_pattern |-> detect_weekly_pattern(acts)], ctx)
    IN  SetItem(SetItem(recommendation, "ai_used", FALSE), "model", RULE_BASED)

\* a default that keeps the evening slot until 18:00
DefaultWithLateEvening(ctx) ==
    LET current_hour == ParseInt(SplitHead(ctx.time_now, ":"))
    IN  [time |-> IF current_hour < 12 THEN SevenAM
                  ELSE IF current_hour < 18 THEN SixPM
                  ELSE TomorrowPrefix \o SevenAM,
         duration |-> 30,
         intensity |-> "moderate",
         insight |-> DEFAULT_INSIGHT,
         motivation |-> DEFAULT_MOTIVATION,
         ai_used |-> FALSE,
         model |-> DEFAULT_MODEL]

_default_recommendation(ctx) ==
    LET current_hour == ParseInt(SplitHead(ctx.time_now, ":"))
    IN  [time |-> IF current_hour < 12 THEN SevenAM
                  ELSE IF current_hour < 17 THEN SixPM
                  ELSE TomorrowPrefix \o SevenAM,
         duration |-> 30,
         intensity |-> "moderate",
         insight |-> DEFAULT_INSIGHT,
         motivation |-> DEFAULT_MOTIVATION,
         ai_used |-> FALSE,
         model |-> DEFAULT_MODEL]

\* a text heuristic that looks for "morning" in lower case only
ParseTextCaseSensitive(text) ==
    [time |-> IF Contains(MORNING, text) THEN SevenAM ELSE SixPM,
     duration |-> 30,
     intensity |-> "moderate",
     insight |-> Take(text, 100),
     motivation |-> TEXT_MOTIVATION,
     ai_used |-> TRUE,
     model |-> FREE_AI_MODEL]

\* the number of characters of the response kept as the insight
INSIGHT_CHARS == 100

_parse_text_response(text) ==
    [time |-> IF Contains(MORNING, Lower(text)) THEN SevenAM
              ELSE IF Contains(EVENING, Lower(text)) THEN SixPM
              ELSE SixPM,
     duration |-> 30,
     intensity |-> "moderate",
     insight |-> Take(text, INSIGHT_CHARS),
     motivation |-> TEXT_MOTIVATION,
     ai_used |-> TRUE,
     model |-> FREE_AI_MODEL]

(***************************************************************************)
(* The answers of the language model.  A call either raises or returns a   *)
(* text.  json.loads is the table of the JSON documents among the sample   *)
(* texts: any other sample text is not JSON.                               *)
(***************************************************************************)
JSON_FULL ==
    <<"{","\"","t","i","m","e","\"",":"," ","\"","0","6",":","3","0","\"",","," ","\"",
      "d","u","r","a","t","i","o","n","\"",":"," ","4","5",","," ","\"","i","n","t","e",
      "n","s","i","t","y","\"",":"," ","\"","e","a","s","y","\"",","," ","\"","i","n",
      "s","i","g","h","t","\"",":"," ","\"","W","e","e","k","d","a","y","s"," ","s","u",
      "i","t"," ","y","o","u","\"",","," ","\"","m","o","t","i","v","a","t","i","o","n",
      "\"",":"," ","\"","G","o","!","\"","}","\n">>
JSON_EMPTY_OBJECT ==
    <<"{","}">>
JSON_ODD_INTENSITY ==
    <<"{","\"","i","n","t","e","n","s","i","t","y","\"",":"," ","\"","s","p","r","i",
      "n","t","\"","}">>
JSON_LIST ==
    <<" ","[","]">>
JsonTime ==
    <<"0","6",":","3","0">>
JsonInsight ==
    <<"W","e","e","k","d","a","y","s"," ","s","u","i","t"," ","y","o","u">>
JsonMotivation ==
    <<"G","o","!">>
TEXT_MORNINGS ==
    <<"I"," ","t","h","i","n","k"," ","m","o","r","n","i","n","g","s"," ","a","r","e",
      " ","b","e","s","t"," ","f","o","r"," ","y","o","u">>
TEXT_SHOUT ==
    <<"\n"," ","M","O","R","N","I","N","G"," ","R","U","N",","," ","4","5"," ","M","I",
      "N"," ">>
TEXT_EVENING ==
    <<"A","n"," ","e","v","e","n","i","n","g"," ","j","o","g"," ","s","u","i","t","s",
      " ","y","o","u">>
TEXT_NOON ==
    <<" "," ","R","u","n"," ","a","t"," ","n","o","o","n",".">>
RunBlock ==
    <<"r","u","n"," ">>
\* 104 characters of "run run ..." and then "morning"
TEXT_LONG ==
    [i \in 1..104 |-> RunBlock[((i - 1) % 4) + 1]] \o MORNING
TEXT_EMPTY ==
    <<>>

\* the parsed value of each JSON document: an object (a dict) or not
JSON_DOCUMENTS ==
    <<[text |-> Strip(JSON_FULL), object |-> TRUE,
       dict |-> [time |-> JsonTime, duration |-> 45, intensity |-> "easy",
                 insight |-> JsonInsight, motivation |-> JsonMotivation]],
      [text |-> Strip(JSON_EMPTY_OBJECT), object |-> TRUE, dict |-> <<>>],
      [text |-> Strip(JSON_ODD_INTENSITY), object |-> TRUE,
       dict |-> [intensity |-> "sprint"]],
      [text |-> Strip(JSON_LIST), object |-> FALSE, dict |-> <<>>]>>

\* json.loads(content) does not raise JSONDecodeError
IsJson(content) ==
    \E i \in 1..Len(JSON_DOCUMENTS) : JSON_DOCUMENTS[i].text = content

\* json.loads(content), for a content that is JSON
json_loads(content) ==
    JSON_DOCUMENTS[CHOOSE i \in 1..Len(JSON_DOCUMENTS) :
                       JSON_DOCUMENTS[i].text = content]

RESPONSE_TEXTS ==
    {JSON_FULL, JSON_EMPTY_OBJECT, JSON_ODD_INTENSITY, JSON_LIST,
     TEXT_MORNINGS, TEXT_SHOUT, TEXT_EVENING, TEXT_NOON, TEXT_LONG, TEXT_EMPTY}

\* what client.chat.completions.create does: raise, or answer with a text
ModelOutcomes ==
    {[raises |-> TRUE, text |-> <<>>]} \cup
    {[raises |-> FALSE, text |-> t] : t \in RESPONSE_TEXTS}

\* Python's None, and a variable that holds no value yet
None ==
    [none |-> TRUE]

\* None where a list of activities is expected: what
\* get_athlete_activities returns when the fetch fails
NoneList ==
    <<None>>

\* no fetch was made
NoFetch ==
    <<[nofetch |-> TRUE]>>

(***************************************************************************)
(* Inputs.                                                                 *)
(***************************************************************************)
\* the hours of a day, for the clock of the context
HOURS_PER_DAY ==
    24

\* one Activity Record, as strava_client.py builds it
Run(date, start_hour, duration_minutes, distance_km) ==
    [date |-> date, start_hour |-> start_hour,
     duration_minutes |-> duration_minutes, distance_km |-> distance_km,
     weekday |-> WEEKDAYS[(date % 7) + 1]]

\* the sequences over S of at most n records, newest first
RECURSIVE NewestFirst(_, _)
NewestFirst(S, n) ==
    IF n = 0 THEN {<<>>}
    ELSE LET shorter == NewestFirst(S, n - 1)
             longest == {t \in shorter : Len(t) = n - 1}
         IN  shorter \cup
             UNION {{<<r>> \o t : t \in {u \in longest :
                                            u # <<>> => u[1].date <= r.date}} :
                    r \in S}

\* an early long run and an evening jog, on either of two days
COACH_RUNS ==
    {Run(d, 6, 90, 1500) : d \in {MaxDate - 2, MaxDate}} \cup
    {Run(d, 19, 30, 500) : d \in {MaxDate - 2, MaxDate}}

CoachActivityLists ==
    NewestFirst(COACH_RUNS, MaxActs)

Context(today, hour, minute, last_run_days_ago) ==
    [today |-> today, time_now |-> FormatHHMM(hour, minute),
     last_run_days_ago |-> last_run_days_ago]

CoachContexts ==
    {Context(WEEKDAYS[(d % 7) + 1], h, 30, ago) :
         d \in {MaxDate, MaxDate + 1}, h \in {9, 13, 20}, ago \in {0, 2, MaxDaysAgo}}

\* runs on any day of the window, for the weekly pattern
WEEKLY_RUNS ==
    {Run(d, 19, 30, 500) : d \in 0..MaxDate}

WeeklyActivityLists ==
    NewestFirst(WEEKLY_RUNS, MaxActs)

\* the pattern bundle that generate_rule_based_recommendation takes
Patterns(acts, avg_duration) ==
    [time_patterns |-> analyze_time_patterns(acts),
     avg_duration |-> avg_duration,
     weekly_pattern |-> detect_weekly_pattern(acts)]

RulesPatterns ==
    {Patterns(acts, avg) : acts \in {<<>>, <<Run(MaxDate, 6, 90, 1500)>>},
                           avg \in 0..MaxAvgDuration}

RulesContexts ==
    {Context(WEEKDAYS[(MaxDate % 7) + 1], h, 0, ago) :
         h \in {5, 20}, ago \in 0..MaxDaysAgo}

(***************************************************************************)
(* State.                                                                  *)
(***************************************************************************)
VARIABLES
    activities,     \* the activities of the invocation
    context,        \* the context of the invocation
    fallback,       \* config.FALLBACK_TO_RULES
    pc,             \* where get_daily_recommendation, or the function applied, is
    response,       \* what the model call did, None before it
    content,        \* response.choices[0].message.content.strip()
    result,         \* the value returned, None before the return
    model_calls,    \* calls of client.chat.completions.create in this invocation
    patterns,       \* the pattern bundle handed to the recommendation engine
    now,            \* datetime.now(), in hours
    cache,          \* the content of the cache file, None if there is none
    api_key,        \* config.OPENROUTER_API_KEY is set
    command,        \* the last command of the CLI
    use_ai,         \* the use_ai argument of the last get_recommendation
    fetched,        \* what get_athlete_activities returned to the last command
    recommendation, \* the recommendation of the last get_recommendation
    insights,       \* the insights of the last analyze_patterns
    status,         \* how the last command ended
    data_source     \* data_source of the last get_recommendation

cli_vars == <<now, cache, api_key, command, use_ai, fetched, recommendation,
              insights, status, data_source>>

vars == <<activities, context, fallback, pc, response, content, result,
          model_calls, patterns, now, cache, api_key, command, use_ai, fetched,
          recommendation, insights, status, data_source>>

\* no command of the CLI has run
CliIdle ==
    /\ now = 0
    /\ cache = None
    /\ api_key = TRUE
    /\ command = "none"
    /\ use_ai = TRUE
    /\ fetched = NoFetch
    /\ recommendation = None
    /\ insights = None
    /\ status = "none"
    /\ data_source = "none"

(***************************************************************************)
(* ai_coach.py: FreeAICoach.get_daily_recommendation, step by step         *)
(***************************************************************************)
\* an entry without the check for empty activities
StartWithoutEmptyCheck ==
    /\ pc = "START"
    /\ pc' = "CALL_MODEL"
    /\ UNCHANGED <<activities, context, fallback, response, content, result,
                   model_calls, patterns>>
    /\ UNCHANGED cli_vars

\* if not activities: ... (lines 22-23)
Start ==
    /\ pc = "START"
    /\ pc' = IF activities = <<>> THEN "DEFAULT" ELSE "CALL_MODEL"
    /\ UNCHANGED <<activities, context, fallback, response, content, result,
                   model_calls, patterns>>
    /\ UNCHANGED cli_vars

\* a coach that calls the model again when the call raises
AfterCallRetrying(outcome) ==
    IF outcome.raises THEN "CALL_MODEL"
    ELSE IF ~IsJson(Strip(outcome.text)) THEN "SUCCESS_TEXT"
    ELSE IF json_loads(Strip(outcome.text)).object THEN "SUCCESS_JSON"
    ELSE "FAILURE"

\* Where the call, the strip, json.loads and the first item assignment of
\* lines 26-46 lead.  A parsed value that is no dict raises TypeError on the
\* item assignment of line 46, which the handler of line 54 catches like an
\* error of the call.
AfterCall(outcome) ==
    IF outcome.raises THEN "FAILURE"
    ELSE IF ~IsJson(Strip(outcome.text)) THEN "SUCCESS_TEXT"
    ELSE IF json_loads(Strip(outcome.text)).object THEN "SUCCESS_JSON"
    ELSE "FAILURE"

\* the model call and the parse of its answer (lines 26-46, 49, 54)
CallModel ==
    /\ pc = "CALL_MODEL"
    /\ \E outcome \in ModelOutcomes :
          /\ response' = outcome
          /\ content' = IF outcome.raises THEN content ELSE Strip(outcome.text)
          /\ pc' = AfterCall(outcome)
    /\ model_calls' = model_calls + 1
    /\ UNCHANGED <<activities, context, fallback, result, patterns>>
    /\ UNCHANGED cli_vars

\* the parsed value with ai_used and model set (lines 46-47)
TaggedJson(value) ==
    SetItem(SetItem(value.dict, "ai_used", TRUE), "model", FREE_AI_MODEL)

\* the parsed dict is tagged and returned as it is (lines 46-48)
TagJson ==
    /\ pc = "SUCCESS_JSON"
    /\ result' = TaggedJson(json_loads(content))
    /\ pc' = "DONE"
    /\ UNCHANGED <<activities, context, fallback, response, content,
                   model_calls, patterns>>
    /\ UNCHANGED cli_vars

\* the handler of JSONDecodeError chooses by the flag (lines 49-52)
AfterDecodeError(flag) ==
    IF flag THEN "RULE_FALLBACK" ELSE "TEXT_HEURISTIC"

TextBranch ==
    /\ pc = "SUCCESS_TEXT"
    /\ pc' = AfterDecodeError(fallback)
    /\ UNCHANGED <<activities, context, fallback, response, content, result,
                   model_calls, patterns>>
    /\ UNCHANGED cli_vars

\* a handler that falls back to the rules whatever the flag
AfterExceptionIgnoringFlag(flag) ==
    "RULE_FALLBACK"

\* the handler of Exception chooses by the flag (lines 54-58)
AfterException(flag) ==
    IF flag THEN "RULE_FALLBACK" ELSE "STATIC_FALLBACK"

FailureBranch ==
    /\ pc = "FAILURE"
    /\ pc' = AfterException(fallback)
    /\ UNCHANGED <<activities, context, fallback, response, content, result,
                   model_calls, patterns>>
    /\ UNCHANGED cli_vars

\* return self._default_recommendation(context) (line 23)
ReturnDefault ==
    /\ pc = "DEFAULT"
    /\ result' = _default_recommendation(context)
    /\ pc' = "DONE"
    /\ UNCHANGED <<activities, context, fallback, response, content,
                   model_calls, patterns>>
    /\ UNCHANGED cli_vars

\* return self._default_recommendation(context) (line 58)
ReturnStatic ==
    /\ pc = "STATIC_FALLBACK"
    /\ result' = _default_recommendation(context)
    /\ pc' = "DONE"
    /\ UNCHANGED <<activities, context, fallback, response, content,
                   model_calls, patterns>>
    /\ UNCHANGED cli_vars

\* return self._fallback_to_rules(activities, context) (lines 51, 57)
ReturnRules ==
    /\ pc = "RULE_FALLBACK"
    /\ result' = _fallback_to_rules(activities, context)
    /\ pc' = "DONE"
    /\ UNCHANGED <<activities, context, fallback, response, content,
                   model_calls, patterns>>
    /\ UNCHANGED cli_vars

\* return self._parse_text_response(content) (line 52)
ReturnText ==
    /\ pc = "TEXT_HEURISTIC"
    /\ result' = _parse_text_response(content)
    /\ pc' = "DONE"
    /\ UNCHANGED <<activities, context, fallback, response, content,
                   model_calls, patterns>>
    /\ UNCHANGED cli_vars

\* one invocation of get_daily_recommendation, on any input
InitCoach ==
    /\ activities \in CoachActivityLists
    /\ context \in CoachContexts
    /\ fallback \in BOOLEAN
    /\ pc = "START"
    /\ response = None
    /\ content = <<>>
    /\ result = None
    /\ model_calls = 0
    /\ patterns = None
    /\ CliIdle

NextCoach ==
    \/ Start
    \/ CallModel
    \/ TagJson
    \/ TextBranch
    \/ FailureBranch
    \/ ReturnDefault
    \/ ReturnStatic
    \/ ReturnRules
    \/ ReturnText

SpecCoach ==
    InitCoach /\ [][NextCoach]_vars

(***************************************************************************)
(* The analyzer and the recommendation engine applied to their inputs.     *)
(***************************************************************************)
\* the three analyzer calls that build the pattern bundle
Analyze ==
    /\ pc = "ANALYZE"
    /\ patterns' = Patterns(activities, calculate_avg_duration(activities))
    /\ pc' = "RULES_INPUT"
    /\ UNCHANGED <<activities, context, fallback, response, content, result,
                   model_calls>>
    /\ UNCHANGED cli_vars

ApplyRules ==
    /\ pc = "RULES_INPUT"
    /\ result' = generate_rule_based_recommendation(patterns, context)
    /\ pc' = "RULES_DONE"
    /\ UNCHANGED <<activities, context, fallback, response, content,
                   model_calls, patterns>>
    /\ UNCHANGED cli_vars

InitAnalyzer ==
    /\ activities \in WeeklyActivityLists
    /\ context \in RulesContexts
    /\ fallback = TRUE
    /\ pc = "ANALYZE"
    /\ response = None
    /\ content = <<>>
    /\ result = None
    /\ model_calls = 0
    /\ patterns = None
    /\ CliIdle

NextAnalyzer ==
    \/ Analyze
    \/ ApplyRules

SpecAnalyzer ==
    InitAnalyzer /\ [][NextAnalyzer]_vars

InitRules ==
    /\ activities = <<>>
    /\ context \in RulesContexts
    /\ fallback = TRUE
    /\ pc = "RULES_INPUT"
    /\ response = None
    /\ content = <<>>
    /\ result = None
    /\ model_calls = 0
    /\ patterns \in RulesPatterns
    /\ CliIdle

NextRules ==
    ApplyRules

SpecRules ==
    InitRules /\ [][NextRules]_vars

\* every minute-of-day context that _get_context can build on day MaxDate
DefaultContexts ==
    {Context(WEEKDAYS[(MaxDate % 7) + 1], h, m, ago) :
         h \in 0..(HOURS_PER_DAY - 1), m \in {0, 30, 59}, ago \in {0, MaxDaysAgo}}

\* get_daily_recommendation on no activities, at any time of day
InitDefault ==
    /\ activities = <<>>
    /\ context \in DefaultContexts
    /\ fallback \in BOOLEAN
    /\ pc = "START"
    /\ response = None
    /\ content = <<>>
    /\ result = None
    /\ model_calls = 0
    /\ patterns = None
    /\ CliIdle

NextDefault ==
    \/ Start
    \/ ReturnDefault

SpecDefault ==
    InitDefault /\ [][NextDefault]_vars

(***************************************************************************)
(* main.py: the cache file, the context and the two commands, as functions *)
(***************************************************************************)
\* config.CACHE_DURATION_HOURS
CACHE_DURATION_HOURS ==
    24

\* the clock counts hours; the first command runs at 09:00 of day MaxDate
NOW_START ==
    HOURS_PER_DAY * MaxDate + 9

\* the steps by which the clock advances between commands
TICK_HOURS ==
    {12}

\* a cache that returns the file whatever its age
LoadCacheIgnoringExpiry(file, clock) ==
    file

\* CacheManager.load_cache: the file if there is one and it has not expired
load_cache(file, clock) ==
    IF file = None THEN None
    ELSE IF clock < file.expires_at THEN file
    ELSE None

\* CacheManager.save_cache: the data with timestamp and expires_at
save_cache(data, clock) ==
    SetItem(SetItem(data, "timestamp", clock),
            "expires_at", clock + CACHE_DURATION_HOURS)

\* RunningCoachCLI._get_context
_get_context(acts, clock) ==
    [today |-> WEEKDAYS[((clock \div HOURS_PER_DAY) % 7) + 1],
     time_now |-> FormatHHMM(clock % HOURS_PER_DAY, 0),
     last_run_days_ago |-> IF acts # <<>>
                           THEN (clock \div HOURS_PER_DAY) - acts[1].date
                           ELSE 0]

\* FreeAICoach.get_daily_recommendation as one function of its inputs, of
\* what the model call does and of the flag
get_daily_recommendation(acts, ctx, outcome, flag) ==
    IF acts = <<>> THEN _default_recommendation(ctx)
    ELSE IF AfterCall(outcome) = "SUCCESS_JSON"
    THEN TaggedJson(json_loads(Strip(outcome.text)))
    ELSE IF AfterCall(outcome) = "SUCCESS_TEXT"
    THEN IF AfterDecodeError(flag) = "RULE_FALLBACK"
         THEN _fallback_to_rules(acts, ctx)
         ELSE _parse_text_response(Strip(outcome.text))
    ELSE IF AfterException(flag) = "RULE_FALLBACK"
         THEN _fallback_to_rules(acts, ctx)
         ELSE _default_recommendation(ctx)

ANALYSIS_CHARS ==
    200

\* FreeAICoach.analyze_weekly_patterns as one function of the activities and
\* of what the model call does
analyze_weekly_patterns(acts, outcome) ==
    IF acts = <<>> THEN [insights |-> <<NoActivityData>>, ai_used |-> FALSE]
    ELSE IF outcome.raises THEN generate_weekly_insights(acts)
    ELSE IF IsJson(Strip(outcome.text)) /\ json_loads(Strip(outcome.text)).object
    THEN SetItem(json_loads(Strip(outcome.text)).dict, "ai_used", TRUE)
    ELSE [insights |-> <<Take(Strip(outcome.text), ANALYSIS_CHARS)>>,
          ai_used |-> TRUE]

\* a fetch that counts an empty list as a failure
FetchFailedOrEmpty(fetched_activities) ==
    fetched_activities = NoneList \/ fetched_activities = <<>>

\* if activities is None: (main.py, get_recommendation and analyze_patterns)
FetchFailed(fetched_activities) ==
    fetched_activities = NoneList

\* a choice of the model by the --free switch alone
UsesModelIgnoringKey(ai, key) ==
    ai

\* if use_ai and OPENROUTER_API_KEY:
UsesModel(ai, key) ==
    ai /\ key

\* the keys that _display_recommendation reads from the recommendation
DISPLAYED_KEYS ==
    {"time", "duration", "intensity", "insight", "motivation"}

\* _display_recommendation: "displayed", or the KeyError of the first key
\* that is read and missing
_display_recommendation(rec, acts) ==
    IF acts # <<>> /\ "time_patterns" \notin DOMAIN detect_weekly_pattern(acts)
    THEN "KeyError"
    ELSE IF ~(DISPLAYED_KEYS \subseteq DOMAIN rec) THEN "KeyError"
    ELSE "displayed"

\* the keys that analyze_patterns reads from the metrics
SUMMARY_KEYS ==
    {"total_distance_km", "total_time_hours", "average_pace_min_per_km",
     "average_distance_km", "average_duration_min"}

\* the performance summary of analyze_patterns
DisplaySummary(acts) ==
    IF SUMMARY_KEYS \subseteq DOMAIN calculate_performance_metrics(acts)
    THEN "displayed"
    ELSE "KeyError"

\* StravaClient.get_athlete_activities: None, or the runs newest first,
\* of an athlete with no run, one run or two
FetchResults ==
    {NoneList, <<>>, <<Run(MaxDate, 6, 90, 1500)>>,
     <<Run(MaxDate, 6, 90, 1500), Run(MaxDate - 2, 19, 30, 500)>>}

\* what the model call of a command does
CLI_OUTCOMES ==
    {[raises |-> TRUE, text |-> <<>>]} \cup
    {[raises |-> FALSE, text |-> t] : t \in {JSON_FULL, TEXT_NOON}}

(***************************************************************************)
(* main.py: the commands of the CLI, each as one step, and the clock.      *)
(***************************************************************************)
\* RunningCoachCLI.get_recommendation
GetRecommendation ==
    \E ai \in BOOLEAN, hit \in {load_cache(cache, now)} :
        /\ command' = "recommend"
        /\ use_ai' = ai
        /\ insights' = None
        /\ IF hit # None /\ "recommendation" \in DOMAIN hit
           THEN /\ fetched' = NoFetch
                /\ activities' = GetOr(hit, "strava_data", <<>>)
                /\ context' = None
                /\ recommendation' = hit.recommendation
                /\ data_source' = "cached"
                /\ model_calls' = 0
                /\ response' = None
                /\ cache' = cache
                /\ status' = _display_recommendation(
                                 hit.recommendation,
                                 GetOr(hit, "strava_data", <<>>))
           ELSE \E got \in FetchResults :
                    IF FetchFailed(got)
                    THEN /\ fetched' = got
                         /\ activities' = NoneList
                         /\ context' = None
                         /\ recommendation' = None
                         /\ data_source' = "none"
                         /\ model_calls' = 0
                         /\ response' = None
                         /\ cache' = cache
                         /\ status' = "fetch failed"
                    ELSE \E ctx \in {_get_context(got, now)} :
                             /\ fetched' = got
                             /\ activities' = got
                             /\ context' = ctx
                             /\ data_source' = "fresh"
                             /\ IF UsesModel(ai, api_key)
                                THEN IF got # <<>>
                                     THEN \E outcome \in CLI_OUTCOMES :
                                              /\ model_calls' = 1
                                              /\ response' = outcome
                                              /\ recommendation' =
                                                     get_daily_recommendation(
                                                         got, ctx, outcome, fallback)
                                     ELSE /\ model_calls' = 0
                                          /\ response' = None
                                          /\ recommendation' =
                                                 get_daily_recommendation(
                                                     got, ctx, None, fallback)
                                ELSE /\ model_calls' = 0
                                     /\ response' = None
                                     /\ recommendation' =
                                            generate_rule_based_recommendation(
                                                Patterns(got, calculate_avg_duration(got)),
                                                ctx)
                             /\ cache' = save_cache(
                                             [strava_data |-> got,
                                              recommendation |-> recommendation'],
                                             now)
                             /\ status' = _display_recommendation(
                                              recommendation', got)
        /\ UNCHANGED <<now, api_key, fallback, pc, content, result, patterns>>

\* RunningCoachCLI.analyze_patterns
AnalyzePatterns ==
    \E hit \in {load_cache(cache, now)} :
        /\ command' = "analyze"
        /\ context' = None
        /\ recommendation' = None
        /\ data_source' = "none"
        /\ \E acts \in IF hit # None /\ "strava_data" \in DOMAIN hit
                        THEN {hit.strava_data}
                        ELSE FetchResults :
               /\ fetched' = IF hit # None /\ "strava_data" \in DOMAIN hit
                             THEN NoFetch ELSE acts
               /\ IF FetchFailed(acts)
                  THEN /\ activities' = NoneList
                       /\ insights' = None
                       /\ model_calls' = 0
                       /\ response' = None
                       /\ status' = "fetch failed"
                  ELSE /\ activities' = acts
                       /\ IF api_key
                          THEN IF acts # <<>>
                               THEN \E outcome \in CLI_OUTCOMES :
                                        /\ model_calls' = 1
                                        /\ response' = outcome
                                        /\ insights' =
                                               analyze_weekly_patterns(acts, outcome)
                               ELSE /\ model_calls' = 0
                                    /\ response' = None
                                    /\ insights' =
                                           analyze_weekly_patterns(acts, None)
                          ELSE /\ model_calls' = 0
                               /\ response' = None
                               /\ insights' = generate_weekly_insights(acts)
                       /\ status' = DisplaySummary(acts)
        /\ UNCHANGED <<now, cache, api_key, use_ai, fallback, pc, content,
                       result, patterns>>

\* the --clear-cache command: CacheManager.clear_cache
ClearCache ==
    /\ command' = "clear-cache"
    /\ cache' = None
    /\ fetched' = NoFetch
    /\ activities' = NoneList
    /\ context' = None
    /\ recommendation' = None
    /\ insights' = None
    /\ data_source' = "none"
    /\ model_calls' = 0
    /\ response' = None
    /\ status' = "cleared"
    /\ UNCHANGED <<now, api_key, use_ai, fallback, pc, content, result, patterns>>

\* time passes between two commands
Tick ==
    /\ now < NOW_START + MaxDays * HOURS_PER_DAY
    /\ \E hours \in TICK_HOURS : now' = now + hours
    /\ UNCHANGED <<activities, context, fallback, pc, response, content, result,
                   model_calls, patterns, cache, api_key, command, use_ai,
                   fetched, recommendation, insights, status, data_source>>

\* the CLI before its first command, with or without OPENROUTER_API_KEY
Init ==
    /\ activities = NoneList
    /\ context = None
    /\ fallback \in BOOLEAN
    /\ pc = "CLI"
    /\ response = None
    /\ content = <<>>
    /\ result = None
    /\ model_calls = 0
    /\ patterns = None
    /\ now = NOW_START
    /\ cache = None
    /\ api_key \in BOOLEAN
    /\ command = "none"
    /\ use_ai = TRUE
    /\ fetched = NoFetch
    /\ recommendation = None
    /\ insights = None
    /\ status = "none"
    /\ data_source = "none"

Next ==
    \/ GetRecommendation
    \/ AnalyzePatterns
    \/ ClearCache
    \/ Tick

Spec ==
    Init /\ [][Next]_vars

(***************************************************************************)
(* Properties.                                                             *)
(***************************************************************************)
RECOMMENDATION_KEYS ==
    {"time", "duration", "intensity", "insight", "motivation", "ai_used", "model"}

INTENSITIES ==
    {"easy", "moderate", "hard"}

IsValidRecommendation(rec) ==
    /\ RECOMMENDATION_KEYS \subseteq DOMAIN rec
    /\ rec.intensity \in INTENSITIES

\* the model call of this invocation raised
CallRaised ==
    response # None /\ response.raises

\* the model answered with a text that json.loads rejects
AnsweredNonJson ==
    response # None /\ ~response.raises /\ ~IsJson(Strip(response.text))

\* the model answered with a JSON object, which is returned as it is
AnsweredJsonObject ==
    /\ response # None
    /\ ~response.raises
    /\ IsJson(Strip(response.text))
    /\ json_loads(Strip(response.text)).object

\* the rule-based recommendation computed directly from the analyzer outputs
\* of the activities, with the tags of the rule-based origin
DirectRuleBased ==
    SetItem(SetItem(generate_rule_based_recommendation(
                        [time_patterns |-> analyze_time_patterns(activities),
                         avg_duration |-> calculate_avg_duration(activities),
                         weekly_pattern |-> detect_weekly_pattern(activities)],
                        context),
                    "ai_used", FALSE),
            "model", RULE_BASED)

\* C1: whatever the activities, the model outcome and the flag,
\* get_daily_recommendation returns a valid Recommendation: all of time,
\* duration, intensity (easy, moderate or hard), insight, motivation, ai_used
\* and model are present.
C1_AlwaysValidRecommendation ==
    pc = "DONE" => IsValidRecommendation(result)

\* C2: when the activities are non-empty and the model call raises, the
\* result is the rule-based recommendation of the same activities and context
\* tagged ai_used=false, model="rule-based" if the flag is enabled, and the
\* static default recommendation of the context if it is disabled.
C2_RaiseFallsBack ==
    (pc = "DONE" /\ activities # <<>> /\ CallRaised)
        => result = IF fallback THEN DirectRuleBased
                    ELSE _default_recommendation(context)

C2_Witness ==
    /\ pc = "DONE"
    /\ CallRaised
    /\ ~fallback
    /\ result.model = DEFAULT_MODEL

\* C3: when the activities are empty the invocation never calls the model
\* and returns the default recommendation of the context, with ai_used=false
\* and model="default".
C3_EmptyReturnsDefault ==
    activities = <<>>
        => /\ model_calls = 0
           /\ response = None
           /\ pc \in {"START", "DEFAULT", "DONE"}
           /\ pc = "DONE" => /\ result = _default_recommendation(context)
                             /\ result.ai_used = FALSE
                             /\ result.model = DEFAULT_MODEL

C3_Witness ==
    /\ pc = "DONE"
    /\ activities = <<>>
    /\ result.model = DEFAULT_MODEL

\* the text heuristic as C4 states it, of a given text
IsTextHeuristicOf(rec, text) ==
    /\ rec.time = IF Contains(MORNING, Lower(text)) THEN SevenAM ELSE SixPM
    /\ rec.duration = 30
    /\ rec.intensity = "moderate"
    /\ rec.insight = Take(text, 100)
    /\ rec.ai_used = TRUE

\* C4, as stated: on a non-JSON answer the result is the rule-based
\* recommendation if the flag is enabled, and otherwise the text heuristic
\* whose insight is the first 100 characters of the response.
C4_InsightOfRawResponse ==
    (pc = "DONE" /\ AnsweredNonJson)
        => IF fallback
           THEN result = DirectRuleBased
           ELSE IsTextHeuristicOf(result, response.text)

\* C4: on a non-JSON answer the result is the rule-based recommendation
\* (ai_used=false, model="rule-based") if the flag is enabled; otherwise it
\* is the text heuristic: time "7:00 AM" if the text contains "morning" in
\* any case and "6:00 PM" if not, duration 30, intensity moderate,
\* ai_used=true, and insight the first 100 characters of the response with
\* its leading and trailing whitespace stripped.
C4_NonJsonAnswer ==
    (pc = "DONE" /\ AnsweredNonJson)
        => IF fallback
           THEN /\ result = DirectRuleBased
                /\ result.ai_used = FALSE
                /\ result.model = RULE_BASED
           ELSE IsTextHeuristicOf(result, Strip(response.text))

C4_Witness ==
    /\ pc = "DONE"
    /\ ~fallback
    /\ AnsweredNonJson
    /\ response.text = TEXT_LONG
    /\ result.time = SevenAM
    /\ Len(result.insight) = 100

\* the transitions of the state machine as C5 states it
CLAIMED_EDGES ==
    {<<"START", "DEFAULT">>, <<"DEFAULT", "DONE">>,
     <<"START", "CALL_MODEL">>,
     <<"CALL_MODEL", "SUCCESS_JSON">>, <<"SUCCESS_JSON", "DONE">>,
     <<"CALL_MODEL", "SUCCESS_TEXT">>, <<"SUCCESS_TEXT", "TEXT_HEURISTIC">>,
     <<"TEXT_HEURISTIC", "DONE">>,
     <<"CALL_MODEL", "FAILURE">>,
     <<"FAILURE", "RULE_FALLBACK">>, <<"FAILURE", "STATIC_FALLBACK">>,
     <<"RULE_FALLBACK", "DONE">>, <<"STATIC_FALLBACK", "DONE">>}

\* the invocation has returned or is at a place with a next step: each
\* step of get_daily_recommendation is guarded by its place alone
DoneOrRunning ==
    pc \in {"DONE"} \cup {edge[1] : edge \in CLAIMED_EDGES}

\* a step along the state machine as C5 states it, with at most one model
\* call made, that ends in DONE or in a state from which the invocation goes on
FollowsClaimedEdge ==
    /\ <<pc, pc'>> \in CLAIMED_EDGES
    /\ model_calls' <= 1
    /\ DoneOrRunning'

FollowsEdge ==
    /\ <<pc, pc'>> \in CLAIMED_EDGES \cup {<<"SUCCESS_TEXT", "RULE_FALLBACK">>}
    /\ model_calls' <= 1
    /\ DoneOrRunning'

\* C5, as stated: every step follows the state machine START -> (DEFAULT |
\* CALL_MODEL -> SUCCESS_JSON | SUCCESS_TEXT -> TEXT_HEURISTIC | FAILURE ->
\* RULE_FALLBACK or STATIC_FALLBACK) -> DONE, the invocation reaches DONE
\* (no state before DONE is stuck, and the machine has no cycle) and the
\* model is called at most once.
C5_ClaimedStateMachine ==
    [][FollowsClaimedEdge]_vars

\* C5: every step follows the state machine START -> (DEFAULT | CALL_MODEL
\* -> SUCCESS_JSON | SUCCESS_TEXT -> TEXT_HEURISTIC or RULE_FALLBACK |
\* FAILURE -> RULE_FALLBACK or STATIC_FALLBACK) -> DONE, where SUCCESS_TEXT
\* leads to RULE_FALLBACK when the flag is enabled; the invocation reaches
\* DONE (no state before DONE is stuck, and the machine has no cycle) and
\* the model is called at most once.
C5_StateMachine ==
    [][FollowsEdge]_vars

C5_Witness ==
    /\ pc = "DONE"
    /\ AnsweredNonJson
    /\ fallback
    /\ model_calls = 1
    /\ result.model = RULE_BASED

\* the rule-based recommendation that get_recommendation computes itself
\* from the activities and the context of the command
RuleBasedOfCommand ==
    generate_rule_based_recommendation(
        Patterns(activities, calculate_avg_duration(activities)), context)

FetchOutcomeHandled ==
    (command' = "recommend" /\ now' = now)
        => /\ fetched' = NoneList
                  => /\ status' = "fetch failed"
                     /\ recommendation' = None
                     /\ model_calls' = 0
                     /\ response' = None
                     /\ cache' = cache
           /\ fetched' = <<>>
                  => /\ status' = "displayed"
                     /\ data_source' = "fresh"
                     /\ model_calls' = 0
                     /\ recommendation' =
                            IF use_ai' /\ api_key
                            THEN _default_recommendation(context')
                            ELSE generate_rule_based_recommendation(
                                     Patterns(<<>>, calculate_avg_duration(<<>>)), context')
                     /\ cache'.recommendation = recommendation'
                     /\ cache'.strava_data = <<>>

\* C7: when get_athlete_activities returns None, get_recommendation halts
\* and reports the failure: no recommendation is computed, the model is not
\* called and the cache is left unchanged.  When it returns the empty list
\* the command does not fail: it produces, caches and displays the
\* recommendation of the default path, the static default of the coach, or
\* the rule-based recommendation over the analyzer's defaults when the
\* model is not used.
C7_FetchFailureHalts ==
    [][FetchOutcomeHandled]_vars

C7_Witness ==
    /\ command = "recommend"
    /\ fetched = NoneList
    /\ status = "fetch failed"
    /\ recommendation = None
    /\ cache # None
    /\ now >= cache.expires_at

\* the hour that a time string of a recommendation suggests
SuggestedHour(time) ==
    LET clock == IF StartsWith(time, TomorrowPrefix)
                 THEN SubSeq(time, Len(TomorrowPrefix) + 1, Len(time))
                 ELSE time
        hour == ParseInt(SplitHead(clock, ":"))
    IN  IF Contains(<<"P", "M">>, clock) /\ hour < 12 THEN hour + 12 ELSE hour

CurrentHour ==
    ParseInt(SplitHead(context.time_now, ":"))

\* C8: for avg_duration >= 0 and last_run_days_ago >= 0 the rule-based
\* recommendation is easy with duration floor(avg_duration * 0.8) when
\* last_run_days_ago > 3, else easy with duration floor(avg_duration * 0.7)
\* when last_run_days_ago = 0, else moderate with duration avg_duration.
C8_IntensityPolicy ==
    pc = "RULES_DONE"
        => LET avg == patterns.avg_duration
               ago == context.last_run_days_ago
           IN  IF ago > 3
               THEN result.intensity = "easy" /\ result.duration = (8 * avg) \div 10
               ELSE IF ago = 0
               THEN result.intensity = "easy" /\ result.duration = (7 * avg) \div 10
               ELSE result.intensity = "moderate" /\ result.duration = avg

\* C9: every recommendation the core builds itself (rule-based, static
\* default, text heuristic) carries the "tomorrow " prefix whenever the hour
\* it suggests is earlier than the current hour, and the rule-based one
\* carries it exactly when the hour of most_common_time is below the current
\* hour.
C9_TomorrowWhenPassed ==
    (pc = "DONE" /\ ~AnsweredJsonObject)
        => /\ SuggestedHour(result.time) < CurrentHour
                  => StartsWith(result.time, TomorrowPrefix)
           /\ result.model = RULE_BASED
                  => (StartsWith(result.time, TomorrowPrefix)
                          <=> ParseInt(SplitHead(
                                  analyze_time_patterns(activities).most_common_time,
                                  ":")) < CurrentHour)

\* C10: for a non-empty activity list runs_per_week is
\* round(count / max(1, date_span_days / 7)) with date_span_days =
\* (max date - min date) + 1, so a history of less than a week never yields
\* more runs per week than activities; for an empty list the pattern is
\* favorite_days ["Tuesday", "Thursday"] and runs_per_week 3.
C10_RunsPerWeek ==
    pc \in {"RULES_INPUT", "RULES_DONE"}
        => LET weekly == patterns.weekly_pattern
               count == Len(activities)
               dates == {activities[i].date : i \in 1..count}
               span == (MaxOf(dates) - MinOf(dates)) + 1
           IN  IF count = 0
               THEN /\ weekly.favorite_days = <<Tuesday, Thursday>>
                    /\ weekly.runs_per_week = 3
               ELSE /\ weekly.runs_per_week =
                           IF span <= 7 THEN count
                           ELSE RoundHalfEven(7 * count, span)
                    /\ span < 7 => weekly.runs_per_week <= count

\* the model call of the command failed: it raised, or it answered with a
\* text that is not JSON
ModelPathFailed ==
    response # None /\ (response.raises \/ ~IsJson(Strip(response.text)))

\* C11: when the model call of analyze_weekly_patterns raises, or its answer
\* is not JSON, the result is exactly generate_weekly_insights(activities):
\* at most 3 insights, ai_used=false and model="rule-based".
C11_AnalysisFailureFallsBack ==
    (command = "analyze" /\ ModelPathFailed)
        => /\ insights = generate_weekly_insights(activities)
           /\ Len(insights.insights) <= 3
           /\ insights.ai_used = FALSE
           /\ insights.model = RULE_BASED

\* C12: calculate_performance_metrics returns the empty mapping for an empty
\* activity list, and analyze_patterns on an empty list reads no metric key
\* from it: the command ends without a KeyError.
C12_EmptyMetricsNotRead ==
    /\ calculate_performance_metrics(<<>>) = <<>>
    /\ (command = "analyze" /\ activities = <<>>) => status = "displayed"

\* C13: generate_rule_based_recommendation returns a record with confidence
\* and without ai_used or model, and each rule-based recommendation that
\* get_recommendation computes, caches and displays, by its own rule-based
\* branch or by the fallback of the coach, carries ai_used=false and
\* model="rule-based".
C13_RuleBasedOriginTagged ==
    (command = "recommend" /\ data_source = "fresh"
        /\ "confidence" \in DOMAIN recommendation)
        => /\ "ai_used" \in DOMAIN recommendation
           /\ "model" \in DOMAIN recommendation
           /\ recommendation.ai_used = FALSE
           /\ recommendation.model = RULE_BASED
           /\ cache.recommendation = recommendation

\* C14: for every context the default recommendation has time "7:00 AM"
\* when the current hour is below 12, "6:00 PM" when it is from 12 to 16 and
\* "tomorrow 7:00 AM" when it is 17 or later (so at "22:00"), always with
\* duration 30, intensity moderate, ai_used=false and model="default".
C14_DefaultByHour ==
    (pc = "DONE" /\ activities = <<>>)
        => /\ result.time = IF CurrentHour < 12 THEN SevenAM
                            ELSE IF CurrentHour <= 16 THEN SixPM
                            ELSE TomorrowPrefix \o SevenAM
           /\ context.time_now = FormatHHMM(22, 0)
                  => result.time = TomorrowPrefix \o SevenAM
           /\ result.duration = 30
           /\ result.intensity = "moderate"
           /\ result.ai_used = FALSE
           /\ result.model = DEFAULT_MODEL

C14_Witness ==
    /\ pc = "DONE"
    /\ activities = <<>>
    /\ context.time_now = FormatHHMM(22, 0)
    /\ result.time = TomorrowPrefix \o SevenAM
    /\ result.model = DEFAULT_MODEL

\* C15: after a fetch that returns a non-empty activity list,
\* get_recommendation computes the recommendation, saves it with the
\* activities to the cache and displays it without raising.
C15_NonEmptyFetchCompletes ==
    (command = "recommend" /\ fetched \notin {NoFetch, NoneList, <<>>})
        => /\ cache.recommendation = recommendation
           /\ cache.strava_data = fetched
           /\ status = "displayed"

\* a step that keeps expires_at at the save time plus CACHE_DURATION_HOURS
\* and on which get_recommendation, if the cache file holds an entry that
\* has not expired, serves it with no fetch and no model call, and
\* otherwise fetches and, unless the fetch fails, computes the
\* recommendation afresh and saves it for CACHE_DURATION_HOURS
CacheDiscipline ==
    /\ cache' # None
           => cache'.expires_at = cache'.timestamp + CACHE_DURATION_HOURS
    /\ (command' = "recommend" /\ now' = now)
           => IF cache # None /\ now < cache.expires_at
              THEN /\ fetched' = NoFetch
                   /\ model_calls' = 0
                   /\ response' = None
                   /\ data_source' = "cached"
                   /\ recommendation' = cache.recommendation
                   /\ activities' = cache.strava_data
                   /\ cache' = cache
              ELSE /\ fetched' # NoFetch
                   /\ data_source' # "cached"
                   /\ fetched' # NoneList
                          => /\ data_source' = "fresh"
                             /\ activities' = fetched'
                             /\ cache'.strava_data = fetched'
                             /\ cache'.recommendation = recommendation'
                             /\ cache'.timestamp = now
                             /\ cache'.expires_at = now + CACHE_DURATION_HOURS

\* C16: over any sequence of get_recommendation commands, cache clears and
\* clock advances, a cached recommendation is served only while the
\* current time is before its expires_at, which is the save time plus
\* CACHE_DURATION_HOURS; while such an entry exists a command makes no fetch
\* and no model call; once the entry has expired or been cleared, the next
\* command fetches and, the fetch succeeding, recomputes and saves.
C16_CacheServedUntilExpiry ==
    [][CacheDiscipline]_vars

C16_Witness ==
    /\ command = "recommend"
    /\ data_source = "cached"
    /\ fetched = NoFetch
    /\ cache.timestamp < now
    /\ now < cache.expires_at
    /\ recommendation = cache.recommendation

====
